---- MODULE Spec2Model ----
(***************************************************************************)
(* Model of the dating-app backend (src/backend/server.js and its two      *)
(* mongoose schemas).  The persistence layer is the state: the User        *)
(* collection (users, profile, liked, likedBy) and the Match collection    *)
(* (matches).  Every request is handled by a slot of `req`; a handler is   *)
(* cut into one action per `await`, so that the reads and writes of        *)
(* requests in different slots interleave as they do on the event loop.    *)
(*                                                                         *)
(* Documents read by findById are private copies (req[p].me,               *)
(* req[p].target).  doc.save() after array.push sends the pushed element   *)
(* as a $push on the stored array (mongoose's delta for an array push), it *)
(* does not write the whole copy back and does not check the version.      *)
(***************************************************************************)
EXTENDS Integers, Sequences, FiniteSets, TLC

\* ---------------------------------------------------------------- bounds
MaxUsers == 3
NumProcs == 2
\* Requests begun in one behaviour.
MaxRequests == 6
MaxAllRequests == 7
MaxListRequests == 8

UserIds == 1..MaxUsers
Procs == 1..NumProcs

\* ------------------------------------------------------- request inputs
\* A well-formed ObjectId that no user ever gets.
GhostId == 0
\* req.body.targetId absent (or any falsy value).
Missing == -1
\* A targetId that does not cast to an ObjectId.
Malformed == -2
\* The id of a null document.
NoId == -3

TargetIds == UserIds \cup {GhostId, Missing, Malformed}

\* Register bodies: genre, email, password, preference; `complete` stands for
\* the presence of firstName, lastName and dob.
Body(g, e, pw, pref, c) ==
  [genre |-> g, email |-> e, password |-> pw, preference |-> pref, complete |-> c]

RegBodies ==
  { Body("male", "a@x", "pw1", "female", TRUE),
    Body("female", "b@x", "pw2", "male", TRUE),
    Body("female", "C@x", "pw1", "all", TRUE),
    Body("male", "a@x", "", "all", TRUE) }

NoBody == Body("", "", "", "", FALSE)

\* ----------------------------------------------------------------- state
\* users, profile, liked, likedBy: the User collection; matches: the Match
\* collection in insertion order; req, resp: the requests in progress and
\* the last response of each slot (req[p].wrote records that the request has
\* written to the store); started: requests begun so far; pre: the stored
\* data as the running request of a one-at-a-time schedule found it.
VARIABLES users, profile, liked, likedBy, matches, req, resp, started, pre

vars == <<users, profile, liked, likedBy, matches, req, resp, started, pre>>
\* The stored data, as one value.
db == [users |-> users, profile |-> profile, liked |-> liked,
       likedBy |-> likedBy, matches |-> matches]
\* What the request of slot p finds when it begins.
Found(p) == [slot |-> p, db |-> db]

\* ------------------------------------------------------------- documents
Doc(i, b, l, lb) == [id |-> i, profile |-> b, liked |-> l, likedBy |-> lb]
NoDoc == Doc(NoId, NoBody, <<>>, <<>>)

MatchDoc(a, b, t) == [userA |-> a, userB |-> b, createdAt |-> t]
NoMatch == MatchDoc(NoId, NoId, 0)

\* User.findById(id): a copy of the stored document, or null.  An id that
\* does not cast to an ObjectId makes the query throw (see CastFails).
FindById(i) ==
  IF i \in users THEN Doc(i, profile[i], liked[i], likedBy[i]) ELSE NoDoc

CastFails(i) == i = Malformed

\* array.find(id => id.toString() === x.toString())
Contains(arr, x) == \E k \in DOMAIN arr : arr[k] = x

\* Match.findOne({$or: [{userA: a, userB: b}, {userA: b, userB: a}]})
PairOf(m, a, b) ==
  \/ (m.userA = a /\ m.userB = b)
  \/ (m.userA = b /\ m.userB = a)

MatchIdx(ms, a, b) == {k \in DOMAIN ms : PairOf(ms[k], a, b)}

\* Variant: the lookup tries one slot order only.
FindOneMatchOneWay(a, b) ==
  IF {k \in DOMAIN matches : matches[k].userA = a /\ matches[k].userB = b} = {}
    THEN NoMatch
    ELSE matches[CHOOSE k \in DOMAIN matches :
                   matches[k].userA = a /\ matches[k].userB = b]

FindOneMatch(a, b) ==
  IF MatchIdx(matches, a, b) = {} THEN NoMatch
  ELSE matches[CHOOSE k \in MatchIdx(matches, a, b) :
                 \A j \in MatchIdx(matches, a, b) : k <= j]

\* createdAt default Date.now: not before the newest record's timestamp; two
\* records may be created within the same millisecond.
LastTime == IF matches = <<>> THEN 0 ELSE matches[Len(matches)].createdAt
Timestamps == {LastTime, LastTime + 1}

\* ------------------------------------------------------------- responses
\* A user document as a response carries it: `password` is "" when the
\* field is excluded by select('-password').
UserView(i, b, l, lb) ==
  [id |-> i, genre |-> b.genre, email |-> b.email, password |-> b.password,
   preference |-> b.preference, liked |-> l, likedBy |-> lb]
NoView == UserView(NoId, NoBody, <<>>, <<>>)

\* kind: "json" for res.json(...), "html" for the framework's own error page,
\* "none" while (or if) nothing is sent.  ids, list, doc: the users, the match
\* records or the user document of a successful listing or update.
Answer(k, s, m, mt, ids, list, doc) ==
  [kind |-> k, status |-> s, message |-> m, match |-> mt,
   ids |-> ids, list |-> list, doc |-> doc]
Resp(s, m, mt) == Answer("json", s, m, mt, <<>>, <<>>, NoView)
NoResp == Answer("none", 0, "", NoMatch, <<>>, <<>>, NoView)

\* PUT /api/users/me bodies: one field and its new value.
Upd(f, v, arr) == [field |-> f, value |-> v, arr |-> arr]
NoUpd == Upd("", "", <<>>)


Request(o, pc, u, t, b) ==
  [op |-> o, pc |-> pc, user |-> u, targetId |-> t, body |-> b,
   me |-> NoDoc, target |-> NoDoc, wrote |-> FALSE,
   upd |-> NoUpd, threw |-> FALSE]
Idle == Request("none", "idle", NoId, Missing, NoBody)

\* "done": answered; "dropped": the handler ended without answering.
Over(p) == req[p].pc \in {"done", "dropped"}
Free(p) == req[p].pc = "idle" \/ Over(p)

\* res.json(...): the handler is over and its copies of documents are gone.
Reply(r, out) ==
  [r |-> [r EXCEPT !.pc = "done", !.me = NoDoc, !.target = NoDoc,
                   !.body = NoBody, !.upd = NoUpd],
   out |-> out]
Goto(r, pc) == [r |-> [r EXCEPT !.pc = pc], out |-> NoResp]

Init ==
  /\ users = {}
  /\ profile = [u \in UserIds |-> NoBody]
  /\ liked = [u \in UserIds |-> <<>>]
  /\ likedBy = [u \in UserIds |-> <<>>]
  /\ matches = <<>>
  /\ req = [p \in Procs |-> Idle]
  /\ resp = [p \in Procs |-> NoResp]
  /\ started = 0
  /\ pre = Found(0)

\* ------------------------------------------------------------ middleware
\* auth: jwt.verify, then User.findById(payload.id); a token is only ever
\* signed for a registered user, and users are never deleted.
AuthStep(r) ==
  IF FindById(r.user).id = NoId
    THEN Reply(r, Resp(401, "User not found", NoMatch))
    ELSE Goto(r, "handler")

Auth(p) ==
  /\ req[p].pc = "auth"
  /\ req' = [req EXCEPT ![p] = AuthStep(req[p]).r]
  /\ resp' = [resp EXCEPT ![p] = AuthStep(req[p]).out]
  /\ UNCHANGED <<users, profile, liked, likedBy, matches, started, pre>>

\* ------------------------------------------------------ POST /api/like
BeginLike(p, u, t) ==
  /\ Free(p)
  /\ u \in users
  /\ req' = [req EXCEPT ![p] = Request("like", "auth", u, t, NoBody)]
  /\ resp' = [resp EXCEPT ![p] = NoResp]
  /\ started' = started + 1
  /\ UNCHANGED <<users, profile, liked, likedBy, matches>>

\* Variant: the self check never fires.
IsSelfNever(r) == FALSE

\* me._id.equals(targetId)
IsSelf(r) == r.me.id = r.targetId

\* me = findById; then the checks on targetId that need no further read.
LikeFindMeStep(r, me) ==
  LET r1 == [r EXCEPT !.me = me] IN
  IF r.targetId = Missing
    THEN Reply(r1, Resp(400, "targetId required", NoMatch))
  ELSE IF IsSelf(r1)
    THEN Reply(r1, Resp(400, "Cannot like yourself", NoMatch))
  ELSE Goto(r1, "findTarget")

\* Variant: the test looks at the requester's own liked array.
MutualOwnSide(r) == Contains(r.me.liked, r.target.id)

\* mutual: target.liked (the copy read at findTarget) contains me.
Mutual(r) == Contains(r.target.liked, r.me.id)

\* Variant: the mutual test is dropped.
CheckMutualAlways(r) == Goto(r, "findMatch")

CheckMutual(r) ==
  IF Mutual(r) THEN Goto(r, "findMatch")
  ELSE Reply(r, Resp(200, "Liked", NoMatch))

\* Variant: the push is not guarded by the membership test.
NeedsLikedByPushAlways(r) == TRUE

NeedsLikedByPush(r) == ~Contains(r.target.likedBy, r.me.id)

CheckLikedBy(r) ==
  IF NeedsLikedByPush(r)
    THEN Goto([r EXCEPT !.target.likedBy = Append(@, r.me.id)], "saveTarget")
    ELSE CheckMutual(r)

\* Variant: the push is not guarded by the membership test.
NeedsLikedPushAlways(r) == TRUE

NeedsLikedPush(r) == ~Contains(r.me.liked, r.target.id)

CheckLiked(r) ==
  IF NeedsLikedPush(r)
    THEN Goto([r EXCEPT !.me.liked = Append(@, r.target.id)], "saveMe")
    ELSE CheckLikedBy(r)

\* Variant: the null check on target is missing.
LikeFindTargetStepNoNull(r, target) ==
  IF CastFails(r.targetId)
    THEN Reply(r, Resp(500, "Server error", NoMatch))
  ELSE CheckLiked([r EXCEPT !.target = target])

\* target = findById(targetId); a cast error is caught by the handler's catch.
LikeFindTargetStep(r, target) ==
  IF CastFails(r.targetId)
    THEN Reply(r, Resp(500, "Server error", NoMatch))
  ELSE IF target.id = NoId
    THEN Reply(r, Resp(404, "User not found", NoMatch))
  ELSE CheckLiked([r EXCEPT !.target = target])

LikeFindMe(p) ==
  /\ req[p].op = "like" /\ req[p].pc = "handler"
  /\ LET s == LikeFindMeStep(req[p], FindById(req[p].user)) IN
       /\ req' = [req EXCEPT ![p] = s.r]
       /\ resp' = [resp EXCEPT ![p] = s.out]
  /\ UNCHANGED <<users, profile, liked, likedBy, matches, started, pre>>

LikeFindTarget(p) ==
  /\ req[p].op = "like" /\ req[p].pc = "findTarget"
  /\ LET s == LikeFindTargetStep(req[p], FindById(req[p].targetId)) IN
       /\ req' = [req EXCEPT ![p] = s.r]
       /\ resp' = [resp EXCEPT ![p] = s.out]
  /\ UNCHANGED <<users, profile, liked, likedBy, matches, started, pre>>

\* Variant: the save writes the whole copy of the array back.
SavedLikedWhole(r) == [liked EXCEPT ![r.me.id] = r.me.liked]

\* me.save() after me.liked.push(target._id): $push of the new element.
SavedLiked(r) == [liked EXCEPT ![r.me.id] = Append(@, r.target.id)]

LikeSaveMe(p) ==
  /\ req[p].op = "like" /\ req[p].pc = "saveMe"
  /\ liked' = SavedLiked(req[p])
  /\ LET s == CheckLikedBy([req[p] EXCEPT !.wrote = TRUE]) IN
       /\ req' = [req EXCEPT ![p] = s.r]
       /\ resp' = [resp EXCEPT ![p] = s.out]
  /\ UNCHANGED <<users, profile, likedBy, matches, started, pre>>

\* target.save() after target.likedBy.push(me._id).
SavedLikedBy(r) == [likedBy EXCEPT ![r.target.id] = Append(@, r.me.id)]

LikeSaveTarget(p) ==
  /\ req[p].op = "like" /\ req[p].pc = "saveTarget"
  /\ likedBy' = SavedLikedBy(req[p])
  /\ LET s == CheckMutual([req[p] EXCEPT !.wrote = TRUE]) IN
       /\ req' = [req EXCEPT ![p] = s.r]
       /\ resp' = [resp EXCEPT ![p] = s.out]
  /\ UNCHANGED <<users, profile, liked, matches, started, pre>>

\* exists = Match.findOne({$or: ...}); if (!exists) goes on to Match.create.
LikeFindMatchStep(r, exists) ==
  IF exists.userA = NoId THEN Goto(r, "createMatch")
  ELSE Reply(r, Resp(200, "Liked", NoMatch))

LikeFindMatch(p) ==
  /\ req[p].op = "like" /\ req[p].pc = "findMatch"
  /\ LET s == LikeFindMatchStep(req[p], FindOneMatch(req[p].me.id, req[p].target.id)) IN
       /\ req' = [req EXCEPT ![p] = s.r]
       /\ resp' = [resp EXCEPT ![p] = s.out]
  /\ UNCHANGED <<users, profile, liked, likedBy, matches, started, pre>>

\* Match.create({userA: me._id, userB: target._id}): the schema declares no
\* index on the pair, so the insert is never rejected.
NewMatch(r, t) == MatchDoc(r.me.id, r.target.id, t)

\* Variant: a unique index on the unordered pair rejects the second insert.
CreateMatchUnique(ms, m) ==
  IF MatchIdx(ms, m.userA, m.userB) = {} THEN Append(ms, m) ELSE ms

\* Variant: the collection keeps the newest record only.
CreateMatchReplace(ms, m) == <<m>>

CreateMatch(ms, m) == Append(ms, m)

LikeCreateMatch(p) ==
  /\ req[p].op = "like" /\ req[p].pc = "createMatch"
  /\ \E t \in Timestamps :
       /\ matches' = CreateMatch(matches, NewMatch(req[p], t))
       /\ req' = [req EXCEPT ![p] = Reply([req[p] EXCEPT !.wrote = TRUE], NoResp).r]
       /\ resp' = [resp EXCEPT ![p] = Resp(200, "It's a match!", NewMatch(req[p], t))]
  /\ UNCHANGED <<users, profile, liked, likedBy, started, pre>>

LikeStep(p) ==
  \/ LikeFindMe(p)
  \/ LikeFindTarget(p)
  \/ LikeSaveMe(p)
  \/ LikeSaveTarget(p)
  \/ LikeFindMatch(p)
  \/ LikeCreateMatch(p)

\* -------------------------------------------------- POST /api/register
\* email has `lowercase: true`: the stored value is lowercased.
Lower(e) == IF e = "C@x" THEN "c@x" ELSE e

\* bcrypt.hash: an opaque value that only bcrypt.compare relates to the input.
Hash(pw) == IF pw = "" THEN "" ELSE "bcrypt:" \o pw

MissingFields(b) ==
  \/ ~b.complete
  \/ b.genre = "" \/ b.email = "" \/ b.password = "" \/ b.preference = ""

BeginRegister(p, b) ==
  /\ Free(p)
  /\ req' = [req EXCEPT ![p] = Request("register", "hash", NoId, Missing, b)]
  /\ resp' = [resp EXCEPT ![p] = NoResp]
  /\ started' = started + 1
  /\ UNCHANGED <<users, profile, liked, likedBy, matches>>

\* the field check, then await bcrypt.hash
RegisterHash(p) ==
  /\ req[p].op = "register" /\ req[p].pc = "hash"
  /\ LET s == IF MissingFields(req[p].body)
                THEN Reply(req[p], Resp(400, "Missing fields", NoMatch))
                ELSE Goto(req[p], "create") IN
       /\ req' = [req EXCEPT ![p] = s.r]
       /\ resp' = [resp EXCEPT ![p] = s.out]
  /\ UNCHANGED <<users, profile, liked, likedBy, matches, started, pre>>

EmailTaken(e) == \E u \in users : profile[u].email = Lower(e)

\* The _id the new document gets: fresh, and otherwise opaque.  Users are
\* named after the address they registered with.
FreshId(e) == CASE Lower(e) = "a@x" -> 1 [] Lower(e) = "b@x" -> 2 [] OTHER -> 3

\* User.create: the unique index on email rejects a duplicate, and the
\* rejection is caught by the handler's catch.
RegisterCreate(p) ==
  /\ req[p].op = "register" /\ req[p].pc = "create"
  /\ IF EmailTaken(req[p].body.email)
       THEN /\ req' = [req EXCEPT ![p] = Reply(req[p], NoResp).r]
            /\ resp' = [resp EXCEPT ![p] = Resp(500, "Server error", NoMatch)]
            /\ UNCHANGED <<users, profile>>
       ELSE LET id == FreshId(req[p].body.email) IN
            /\ id \in UserIds
            /\ users' = users \cup {id}
            /\ profile' = [profile EXCEPT ![id] =
                 [req[p].body EXCEPT !.email = Lower(@), !.password = Hash(@)]]
            /\ req' = [req EXCEPT ![p] =
                 Reply([req[p] EXCEPT !.user = id, !.wrote = TRUE], NoResp).r]
            /\ resp' = [resp EXCEPT ![p] = Resp(200, "token", NoMatch)]
  /\ UNCHANGED <<liked, likedBy, matches, started, pre>>

RegisterStep(p) == RegisterHash(p) \/ RegisterCreate(p)

\* ------------------------------------------------------ POST /api/login
Emails == {b.email : b \in RegBodies}
Passwords == {"pw1", "pw2"}

BeginLogin(p, e, pw) ==
  /\ Free(p)
  /\ req' = [req EXCEPT ![p] =
       Request("login", "findOne", NoId, Missing, Body("", e, pw, "", FALSE))]
  /\ resp' = [resp EXCEPT ![p] = NoResp]
  /\ started' = started + 1
  /\ UNCHANGED <<users, profile, liked, likedBy, matches>>

\* User.findOne({email}): the value is cast as the stored one is.
FindByEmail(e) ==
  IF EmailTaken(e)
    THEN FindById(CHOOSE u \in users : profile[u].email = Lower(e))
    ELSE NoDoc

LoginFindOne(p) ==
  /\ req[p].op = "login" /\ req[p].pc = "findOne"
  /\ LET user == FindByEmail(req[p].body.email)
         s == IF user.id = NoId
                THEN Reply(req[p], Resp(400, "Invalid credentials", NoMatch))
                ELSE Goto([req[p] EXCEPT !.me = user], "compare") IN
       /\ req' = [req EXCEPT ![p] = s.r]
       /\ resp' = [resp EXCEPT ![p] = s.out]
  /\ UNCHANGED <<users, profile, liked, likedBy, matches, started, pre>>

\* bcrypt.compare(password, user.password)
Compare(pw, hash) == Hash(pw) = hash

LoginCompare(p) ==
  /\ req[p].op = "login" /\ req[p].pc = "compare"
  /\ LET s == IF Compare(req[p].body.password, req[p].me.profile.password)
                THEN Reply([req[p] EXCEPT !.user = req[p].me.id],
                           Resp(200, "token", NoMatch))
                ELSE Reply(req[p], Resp(400, "Invalid credentials", NoMatch)) IN
       /\ req' = [req EXCEPT ![p] = s.r]
       /\ resp' = [resp EXCEPT ![p] = s.out]
  /\ UNCHANGED <<users, profile, liked, likedBy, matches, started, pre>>

LoginStep(p) == LoginFindOne(p) \/ LoginCompare(p)

\* ------------------------------------------- requests behind `auth`
BeginAuthed(p, op, u) ==
  /\ Free(p)
  /\ u \in users
  /\ req' = [req EXCEPT ![p] = Request(op, "auth", u, Missing, NoBody)]
  /\ resp' = [resp EXCEPT ![p] = NoResp]
  /\ started' = started + 1
  /\ UNCHANGED <<users, profile, liked, likedBy, matches>>

\* Variant: the stored document is returned whole.
ViewWhole(d) == UserView(d.id, d.profile, d.liked, d.likedBy)

\* select('-password')
View(d) == UserView(d.id, [d.profile EXCEPT !.password = ""], d.liked, d.likedBy)

\* --------------------------------------------------- PUT /api/users/me
Updates ==
  { Upd("preference", "all", <<>>), Upd("preference", "", <<>>),
    Upd("password", "pw2", <<>>),
    Upd("liked", "", <<>>), Upd("likedBy", "", <<GhostId>>) }

BeginUpdate(p, u, upd) ==
  /\ Free(p)
  /\ u \in users
  /\ req' = [req EXCEPT ![p] =
       [Request("update", "auth", u, Missing, NoBody) EXCEPT !.upd = upd]]
  /\ resp' = [resp EXCEPT ![p] = NoResp]
  /\ started' = started + 1
  /\ UNCHANGED <<users, profile, liked, likedBy, matches>>

\* User.findByIdAndUpdate(req.user._id, updates, {new: true}): $set of the
\* fields the body names, on the requester's document only.
UpdatedProfile(u, upd) ==
  CASE upd.field = "preference" -> [profile EXCEPT ![u].preference = upd.value]
    [] upd.field = "password" -> [profile EXCEPT ![u].password = upd.value]
    [] OTHER -> profile

UpdatedLiked(u, upd) ==
  IF upd.field = "liked" THEN [liked EXCEPT ![u] = upd.arr] ELSE liked

UpdatedLikedBy(u, upd) ==
  IF upd.field = "likedBy" THEN [likedBy EXCEPT ![u] = upd.arr] ELSE likedBy

UpdateProfile(p) ==
  /\ req[p].op = "update" /\ req[p].pc = "handler"
  /\ LET u == req[p].user
         upd == req[p].upd IN
       /\ profile' = UpdatedProfile(u, upd)
       /\ liked' = UpdatedLiked(u, upd)
       /\ likedBy' = UpdatedLikedBy(u, upd)
       /\ req' = [req EXCEPT ![p] = Reply([req[p] EXCEPT !.wrote = TRUE], NoResp).r]
       /\ resp' = [resp EXCEPT ![p] =
            Answer("json", 200, "", NoMatch, <<>>, <<>>,
                   View(Doc(u, UpdatedProfile(u, upd)[u], UpdatedLiked(u, upd)[u],
                            UpdatedLikedBy(u, upd)[u])))]
  /\ UNCHANGED <<users, matches, started, pre>>

\* ------------------------------------------------------ GET /api/users
\* .limit(50)
CandidateLimit == 50

Min(a, b) == IF a <= b THEN a ELSE b
Limit(arr, n) == SubSeq(arr, 1, Min(n, Len(arr)))

\* The stored users, in the order the collection returns them.
Stored == SelectSeq([i \in 1..MaxUsers |-> i], LAMBDA u : u \in users)

\* excluded = [me._id, ...(me.liked || [])]
Excluded(me) == <<me.id>> \o me.liked

\* query.genre is set when me.preference is neither empty nor 'all'.
GenreFilter(me) ==
  IF me.profile.preference # "" /\ me.profile.preference # "all"
    THEN me.profile.preference ELSE ""

Candidates(me) ==
  Limit(SelectSeq(Stored, LAMBDA u :
          /\ ~Contains(Excluded(me), u)
          /\ (GenreFilter(me) = "" \/ profile[u].genre = GenreFilter(me))),
        CandidateLimit)

CandidatesFindMe(p) ==
  /\ req[p].op = "candidates" /\ req[p].pc = "handler"
  /\ req' = [req EXCEPT ![p] = Goto([req[p] EXCEPT !.me = FindById(req[p].user)], "find").r]
  /\ UNCHANGED <<users, profile, liked, likedBy, matches, resp, started, pre>>

CandidatesFind(p) ==
  /\ req[p].op = "candidates" /\ req[p].pc = "find"
  /\ req' = [req EXCEPT ![p] = Reply(req[p], NoResp).r]
  /\ resp' = [resp EXCEPT ![p] =
       Answer("json", 200, "", NoMatch, Candidates(req[p].me), <<>>, NoView)]
  /\ UNCHANGED <<users, profile, liked, likedBy, matches, started, pre>>

CandidatesStep(p) == CandidatesFindMe(p) \/ CandidatesFind(p)

\* -------------------------------------------------- GET /api/users/all
\* User.find({_id: {$ne: req.user._id}}).limit(50)
AllButMe(u) == Limit(SelectSeq(Stored, LAMBDA v : v # u), CandidateLimit)

ListAll(p) ==
  /\ req[p].op = "listAll" /\ req[p].pc = "handler"
  /\ req' = [req EXCEPT ![p] = Reply(req[p], NoResp).r]
  /\ resp' = [resp EXCEPT ![p] =
       Answer("json", 200, "", NoMatch, AllButMe(req[p].user), <<>>, NoView)]
  /\ UNCHANGED <<users, profile, liked, likedBy, matches, started, pre>>

\* --------------------------------------------------- GET /api/matches
\* Match.find({$or: [{userA: userId}, {userB: userId}]})
\* Variant: the query looks at the userA slot only.
InMatchSlotA(m, u) == m.userA = u

InMatch(m, u) == m.userA = u \/ m.userB = u

FindMatches(u) == SelectSeq(matches, LAMBDA m : InMatch(m, u))

\* Variant: oldest first.
SortedAsc(arr) ==
  { [k \in DOMAIN arr |-> arr[f[k]]] :
      f \in { g \in [DOMAIN arr -> DOMAIN arr] :
                /\ \A i, j \in DOMAIN arr : i # j => g[i] # g[j]
                /\ \A i, j \in DOMAIN arr :
                     i < j => arr[g[i]].createdAt <= arr[g[j]].createdAt } }

\* .sort({createdAt: -1}): any order of the records that puts no record
\* before a newer one.
SortedDesc(arr) ==
  { [k \in DOMAIN arr |-> arr[f[k]]] :
      f \in { g \in [DOMAIN arr -> DOMAIN arr] :
                /\ \A i, j \in DOMAIN arr : i # j => g[i] # g[j]
                /\ \A i, j \in DOMAIN arr :
                     i < j => arr[g[i]].createdAt >= arr[g[j]].createdAt } }

ListMatches(p) ==
  /\ req[p].op = "matches" /\ req[p].pc = "handler"
  /\ \E list \in SortedDesc(FindMatches(req[p].user)) :
       /\ req' = [req EXCEPT ![p] = Reply(req[p], NoResp).r]
       /\ resp' = [resp EXCEPT ![p] =
            Answer("json", 200, "", NoMatch, <<>>, list, NoView)]
  /\ UNCHANGED <<users, profile, liked, likedBy, matches, started, pre>>

\* ------------------------------------------- a persistence call throws
\* The steps that wait on the database.
Awaiting(r) == r.pc \notin {"idle", "done", "dropped", "hash", "compare"}

\* auth and the register, login, like and list-all handlers wrap their body
\* in try/catch; the update, candidates and matches handlers do not.
Catches(r) == r.pc = "auth" \/ r.op \in {"register", "login", "like", "listAll"}

Caught(r) ==
  IF r.pc = "auth" THEN Resp(401, "Invalid token", NoMatch)
  ELSE Resp(500, "Server error", NoMatch)

\* A rejection no handler catches: the framework either never answers the
\* request or answers it with its own 500 page, depending on its version.
Uncaught(r) ==
  { [r |-> [Reply(r, NoResp).r EXCEPT !.pc = "dropped"], out |-> NoResp],
    Reply(r, Answer("html", 500, "", NoMatch, <<>>, <<>>, NoView)) }

Throw(p) ==
  /\ Awaiting(req[p])
  /\ LET r == [req[p] EXCEPT !.threw = TRUE] IN
       \E s \in (IF Catches(r) THEN {Reply(r, Caught(r))} ELSE Uncaught(r)) :
         /\ req' = [req EXCEPT ![p] = s.r]
         /\ resp' = [resp EXCEPT ![p] = s.out]
  /\ UNCHANGED <<users, profile, liked, likedBy, matches, started, pre>>

\* ------------------------------------------------------- specifications
\* Requests of any users, their steps interleaved.
Next ==
  \/ \E p \in Procs, b \in RegBodies :
       started < MaxRequests /\ BeginRegister(p, b) /\ UNCHANGED pre
  \/ \E p \in Procs, u \in UserIds, t \in TargetIds :
       started < MaxRequests /\ BeginLike(p, u, t) /\ UNCHANGED pre
  \/ \E p \in Procs : Auth(p)
  \/ \E p \in Procs : RegisterStep(p)
  \/ \E p \in Procs : LikeStep(p)

Spec == Init /\ [][Next]_vars

\* Requests executed one at a time: a request begins only when no other is in
\* progress, and `pre` keeps the stored data it started from.
Quiet == \A q \in Procs : Free(q)
\* One at a time, the request is served by the first slot.
Turn(p) == Quiet /\ p = 1 /\ started < MaxRequests

NextSeq ==
  \/ \E p \in Procs, b \in RegBodies :
       Turn(p) /\ BeginRegister(p, b) /\ pre' = Found(p)
  \/ \E p \in Procs, u \in UserIds, t \in TargetIds :
       Turn(p) /\ BeginLike(p, u, t) /\ pre' = Found(p)
  \/ \E p \in Procs : Auth(p)
  \/ \E p \in Procs : RegisterStep(p)
  \/ \E p \in Procs : LikeStep(p)

SpecSeq == Init /\ [][NextSeq]_vars

\* Every operation, one request at a time, where any call to the database
\* may throw.
AuthedOps == {"candidates", "listAll", "matches"}

NextFail ==
  \/ \E p \in Procs, b \in RegBodies :
       Turn(p) /\ BeginRegister(p, b) /\ pre' = Found(p)
  \/ \E p \in Procs, e \in Emails, pw \in Passwords :
       Turn(p) /\ BeginLogin(p, e, pw) /\ pre' = Found(p)
  \/ \E p \in Procs, u \in UserIds, t \in TargetIds :
       Turn(p) /\ BeginLike(p, u, t) /\ pre' = Found(p)
  \/ \E p \in Procs, u \in UserIds, upd \in Updates :
       Turn(p) /\ BeginUpdate(p, u, upd) /\ pre' = Found(p)
  \/ \E p \in Procs, u \in UserIds, op \in AuthedOps :
       Turn(p) /\ BeginAuthed(p, op, u) /\ pre' = Found(p)
  \/ \E p \in Procs : Auth(p)
  \/ \E p \in Procs : RegisterStep(p)
  \/ \E p \in Procs : LoginStep(p)
  \/ \E p \in Procs : LikeStep(p)
  \/ \E p \in Procs : UpdateProfile(p)
  \/ \E p \in Procs : CandidatesStep(p)
  \/ \E p \in Procs : ListAll(p)
  \/ \E p \in Procs : ListMatches(p)
  \/ \E p \in Procs : Throw(p)

SpecFail == Init /\ [][NextFail]_vars

\* Every operation, one request at a time, every call succeeding.
TurnAll(p) == Quiet /\ p = 1 /\ started < MaxAllRequests

NextAll ==
  \/ \E p \in Procs, b \in RegBodies :
       TurnAll(p) /\ BeginRegister(p, b) /\ pre' = Found(p)
  \/ \E p \in Procs, e \in Emails, pw \in Passwords :
       TurnAll(p) /\ BeginLogin(p, e, pw) /\ pre' = Found(p)
  \/ \E p \in Procs, u \in UserIds, t \in TargetIds :
       TurnAll(p) /\ BeginLike(p, u, t) /\ pre' = Found(p)
  \/ \E p \in Procs, u \in UserIds, upd \in Updates :
       TurnAll(p) /\ BeginUpdate(p, u, upd) /\ pre' = Found(p)
  \/ \E p \in Procs, u \in UserIds, op \in AuthedOps :
       TurnAll(p) /\ BeginAuthed(p, op, u) /\ pre' = Found(p)
  \/ \E p \in Procs : Auth(p)
  \/ \E p \in Procs : RegisterStep(p)
  \/ \E p \in Procs : LoginStep(p)
  \/ \E p \in Procs : LikeStep(p)
  \/ \E p \in Procs : UpdateProfile(p)
  \/ \E p \in Procs : CandidatesStep(p)
  \/ \E p \in Procs : ListAll(p)
  \/ \E p \in Procs : ListMatches(p)

SpecAll == Init /\ [][NextAll]_vars

\* Registrations, likes and match listings, one request at a time, long
\* enough for one user to be matched twice.
TurnList(p) == Quiet /\ p = 1 /\ started < MaxListRequests

NextList ==
  \/ \E p \in Procs, b \in RegBodies :
       TurnList(p) /\ BeginRegister(p, b) /\ pre' = Found(p)
  \/ \E p \in Procs, u \in UserIds, t \in TargetIds :
       TurnList(p) /\ BeginLike(p, u, t) /\ pre' = Found(p)
  \/ \E p \in Procs, u \in UserIds :
       TurnList(p) /\ BeginAuthed(p, "matches", u) /\ pre' = Found(p)
  \/ \E p \in Procs : Auth(p)
  \/ \E p \in Procs : RegisterStep(p)
  \/ \E p \in Procs : LikeStep(p)
  \/ \E p \in Procs : ListMatches(p)

SpecList == Init /\ [][NextList]_vars

\* =============================================================== claims
Count(arr, x) == Cardinality({k \in DOMAIN arr : arr[k] = x})
SeqHas(arr, x) == \E k \in DOMAIN arr : arr[k] = x
PairCount(ms, a, b) == Cardinality(MatchIdx(ms, a, b))

\* The like request of slot p, run one at a time, with what it found.
SeqLike(p) == pre.slot = p /\ req[p].op = "like"
Done(p) == req[p].pc = "done"
Liked200 == Resp(200, "Liked", NoMatch)

\* C1: with requests executed one at a time, any two users have at most one
\* Match record between them, whichever slot order it is stored in.
C1_AtMostOneMatchSeq ==
  \A a, b \in UserIds : PairCount(matches, a, b) <= 1

\* A like on an already matched pair, asked by the user stored as userB,
\* has completed.
C1_Witness ==
  \E p \in Procs :
    /\ SeqLike(p) /\ Done(p) /\ resp[p].status = 200
    /\ \E k \in DOMAIN pre.db.matches :
         /\ pre.db.matches[k].userA = req[p].targetId
         /\ pre.db.matches[k].userB = req[p].user

\* C2: the store never rejects Match.create: a request that has passed the
\* "no existing Match" check inserts its record whatever the collection holds
\* by then, so interleaved requests for one pair can leave two records.
C2_CreateNeverRejected ==
  [][\A p \in Procs :
       (req[p].pc = "createMatch" /\ req'[p].pc = "done") =>
         /\ Len(matches') = Len(matches) + 1
         /\ matches'[Len(matches')] = resp'[p].match
         /\ PairOf(resp'[p].match, req[p].me.id, req[p].target.id)]_vars

\* Two Match records for the same unordered pair.
C2_Witness ==
  \E a, b \in UserIds : a < b /\ PairCount(matches, a, b) >= 2

\* C3: one at a time, when B had already liked A and A's like of B succeeds,
\* exactly one Match record for {A,B} exists and the matches query returns it
\* for A and for B.
C3_MutualLikeHasOneMatch ==
  \A p \in Procs :
    (/\ SeqLike(p) /\ Done(p) /\ resp[p].status = 200
     /\ Contains(pre.db.liked[req[p].targetId], req[p].user)) =>
      /\ PairCount(matches, req[p].user, req[p].targetId) = 1
      /\ \A k \in MatchIdx(matches, req[p].user, req[p].targetId) :
           /\ SeqHas(FindMatches(req[p].user), matches[k])
           /\ SeqHas(FindMatches(req[p].targetId), matches[k])

\* A's like of B, after B liked A, has just formed the match.
C3_Witness ==
  \E p \in Procs :
    /\ SeqLike(p) /\ Done(p) /\ resp[p].message = "It's a match!"
    /\ Contains(pre.db.liked[req[p].targetId], req[p].user)
    /\ pre.db.matches = <<>>

\* C4: one at a time, a successful like answers "It's a match!" with the new
\* record exactly when it created a Match record, which is exactly when the
\* target had already liked the requester and no record for the pair existed;
\* otherwise it answers "Liked" and creates nothing.
C4_MatchFormedIff ==
  \A p \in Procs :
    (SeqLike(p) /\ Done(p) /\ resp[p].status = 200) =>
      LET u == req[p].user
          t == req[p].targetId
          formed == resp[p].message = "It's a match!"
      IN /\ formed <=> (/\ Contains(pre.db.liked[t], u)
                        /\ MatchIdx(pre.db.matches, u, t) = {})
         /\ formed <=> (matches # pre.db.matches)
         /\ formed => /\ matches = Append(pre.db.matches, resp[p].match)
                      /\ resp[p].match.userA = u
                      /\ resp[p].match.userB = t
         /\ ~formed => resp[p] = Liked200

\* The end of the scenario: A liked B, B liked A and formed the match, and A's
\* second like of B has answered "Liked".
C4_Witness ==
  \E p \in Procs :
    /\ SeqLike(p) /\ Done(p) /\ resp[p] = Liked200
    /\ Len(matches) = 1
    /\ matches[1].userA = req[p].targetId /\ matches[1].userB = req[p].user
    /\ liked[req[p].user] = <<req[p].targetId>>
    /\ liked[req[p].targetId] = <<req[p].user>>
    /\ started = 5

\* C5: one at a time, a like between two users who already have a Match
\* record answers "Liked" and changes neither liked, likedBy nor the Match
\* records.
C5_MatchedIsTerminal ==
  \A p \in Procs :
    (/\ SeqLike(p) /\ req[p].targetId \in UserIds
     /\ MatchIdx(pre.db.matches, req[p].user, req[p].targetId) # {}) =>
      /\ liked = pre.db.liked
      /\ likedBy = pre.db.likedBy
      /\ matches = pre.db.matches
      /\ Done(p) => resp[p] = Liked200

\* The user stored as userA has liked the other again, after the match.
C5_Witness ==
  \E p \in Procs :
    /\ SeqLike(p) /\ Done(p)
    /\ \E k \in DOMAIN pre.db.matches :
         /\ pre.db.matches[k].userA = req[p].user
         /\ pre.db.matches[k].userB = req[p].targetId

\* C6: no liked or likedBy array holds its owner's id or holds an id twice,
\* in any state that like requests reach, interleaved ones included.
C6_NoSelfNoDuplicates ==
  \A u, x \in UserIds :
    /\ ~Contains(liked[u], u) /\ ~Contains(likedBy[u], u)
    /\ Count(liked[u], x) <= 1 /\ Count(likedBy[u], x) <= 1

\* C7: one at a time, a like of a user the requester has liked before does
\* not fail and leaves the stored data as it was, with the target once in the
\* requester's liked and the requester once in the target's likedBy.
C7_RelikeIdempotent ==
  \A p \in Procs :
    (/\ SeqLike(p) /\ req[p].targetId \in UserIds
     /\ Contains(pre.db.liked[req[p].user], req[p].targetId)) =>
      /\ liked = pre.db.liked
      /\ likedBy = pre.db.likedBy
      /\ matches = pre.db.matches
      /\ Done(p) =>
           /\ resp[p].status = 200
           /\ Count(liked[req[p].user], req[p].targetId) = 1
           /\ Count(likedBy[req[p].targetId], req[p].user) = 1

\* A second like of the same target, with no match between the two.
C7_Witness ==
  \E p \in Procs :
    /\ SeqLike(p) /\ Done(p) /\ req[p].targetId \in UserIds
    /\ Contains(pre.db.liked[req[p].user], req[p].targetId)
    /\ MatchIdx(matches, req[p].user, req[p].targetId) = {}

\* C8: a like of oneself is answered 400 "Cannot like yourself" in every
\* state, before the target is looked up, and the request writes nothing.
C8_SelfLikeRejected ==
  \A p \in Procs :
    (req[p].op = "like" /\ req[p].targetId = req[p].user) =>
      /\ ~req[p].wrote
      /\ req[p].pc \in {"auth", "handler", "done"}
      /\ Done(p) => resp[p] = Resp(400, "Cannot like yourself", NoMatch)

\* A self-like rejected in a state where the user has likes and a match.
C8_Witness ==
  \E p \in Procs :
    /\ req[p].op = "like" /\ Done(p) /\ req[p].targetId = req[p].user
    /\ resp[p].status = 400
    /\ liked[req[p].user] # <<>> /\ matches # <<>>

C10_FailuresAnswered ==
  \A p \in Procs :
    (req[p].threw /\ Over(p)) =>
      /\ resp[p].kind = "json"
      /\ resp[p].status \in {401, 500}
      /\ resp[p].message \in {"Invalid token", "Server error"}

\* The request of slot p for operation op, run one at a time, with what it
\* found.
SeqOp(p, op) == pre.slot = p /\ req[p].op = op
Range(arr) == {arr[k] : k \in DOMAIN arr}

\* C11: the candidate list of user U holds at most 50 users, never U, never
\* a user of U's liked array, only users whose genre equals U's preference
\* unless the preference is 'all', every such user when U has liked nobody,
\* and computing it changes nothing stored.
C11_CandidatesFiltered ==
  \A p \in Procs :
    (SeqOp(p, "candidates") /\ Done(p) /\ resp[p].status = 200) =>
      LET u == req[p].user
          ids == resp[p].ids
      IN /\ Len(ids) <= CandidateLimit
         /\ ~SeqHas(ids, u)
         /\ \A v \in Range(liked[u]) : ~SeqHas(ids, v)
         /\ profile[u].preference # "all" =>
              \A v \in Range(ids) : profile[v].genre = profile[u].preference
         /\ liked[u] = <<>> =>
              \A v \in users \ {u} :
                (profile[u].preference = "all"
                   \/ profile[v].genre = profile[u].preference) => SeqHas(ids, v)
         /\ db = pre.db

\* C12: the match list of user U holds exactly the stored Match records with
\* U as userA or userB, each once, no record before a newer one, and
\* computing it changes nothing stored.
C12_MatchesListed ==
  \A p \in Procs :
    (SeqOp(p, "matches") /\ Done(p) /\ resp[p].status = 200) =>
      LET u == req[p].user
          list == resp[p].list
      IN /\ \A m \in Range(matches) \cup Range(list) :
              Count(list, m) =
                IF m.userA = u \/ m.userB = u THEN Count(matches, m) ELSE 0
         /\ \A i, j \in DOMAIN list :
              i < j => list[i].createdAt >= list[j].createdAt
         /\ db = pre.db

\* A user matched twice at different times gets both records, newest first.
C12_Witness ==
  \E p \in Procs :
    /\ SeqOp(p, "matches") /\ Done(p) /\ resp[p].status = 200
    /\ Len(resp[p].list) = 2
    /\ resp[p].list[1].createdAt > resp[p].list[2].createdAt
    /\ matches[1] = resp[p].list[2]

\* C13: across register, login, update, candidate-list, like and match-list
\* requests the Match collection changes only by a like request appending one
\* record; the records already stored stay as they are, in place.
C13_MatchesAppendOnly ==
  [][\/ matches' = matches
     \/ /\ Len(matches') = Len(matches) + 1
        /\ SubSeq(matches', 1, Len(matches)) = matches
        /\ \E p \in Procs :
             /\ req[p].op = "like" /\ req[p].pc = "createMatch"
             /\ req'[p].pc = "done"]_vars

\* A like appended a second record behind an older one, which stayed as it
\* was.
C13_Witness ==
  \E p \in Procs :
    /\ SeqOp(p, "like") /\ Done(p) /\ req[p].wrote
    /\ Len(pre.db.matches) = 1
    /\ Len(matches) = 2
    /\ matches[1] = pre.db.matches[1]

\* C14: from a pair with no likes, one like A->B and one like B->A, their
\* steps interleaved in any order and both answered 200, leave exactly one
\* Match record for the pair.
C14_ConcurrentMutualLikeMatches ==
  \A p, q \in Procs :
    (/\ p # q /\ Done(p) /\ Done(q)
     /\ req[p].op = "like" /\ req[q].op = "like"
     /\ resp[p].status = 200 /\ resp[q].status = 200
     /\ req[p].user = req[q].targetId /\ req[q].user = req[p].targetId
     /\ Cardinality(users) = 2 /\ started = 4) =>
      PairCount(matches, req[p].user, req[p].targetId) = 1

\* C15: every Match record pairs two distinct registered users each of whom
\* has the other in the stored liked array, in every state that register and
\* like requests reach, interleaved or not.
C15_MatchMeansMutualLike ==
  \A k \in DOMAIN matches :
    LET a == matches[k].userA
        b == matches[k].userB
    IN /\ a # b
       /\ a \in users /\ b \in users
       /\ Contains(liked[a], b)
       /\ Contains(liked[b], a)

\* Two records of one pair, stored in both slot orders by interleaved likes.
C15_Witness ==
  \E j, k \in DOMAIN matches :
    /\ matches[j].userA = matches[k].userB
    /\ matches[j].userB = matches[k].userA

\* C16: when no request is in progress, B is in A's liked exactly when A is
\* in B's likedBy, for all users A and B, also after likes that touched the
\* same user document were interleaved.
C16_LikedMirrorsLikedBy ==
  Quiet =>
    \A a, b \in UserIds : Contains(liked[a], b) <=> Contains(likedBy[b], a)

\* A liked B while B liked C: both requests are answered, and B's document
\* was written by both.
C16_Witness ==
  \E p, q \in Procs :
    /\ Done(p) /\ Done(q)
    /\ req[p].op = "like" /\ req[q].op = "like"
    /\ req[p].wrote /\ req[q].wrote
    /\ req[p].targetId = req[q].user
    /\ req[q].targetId \notin {req[p].user, req[q].user}
    /\ liked[req[q].user] # <<>> /\ likedBy[req[q].user] # <<>>

\* C17: an update request, whatever field it names (liked and likedBy
\* included), leaves every other user's document, the set of users and the
\* Match collection as they were, and the document it returns is the
\* requester's stored one without the password.
C17_UpdateOwnRecordOnly ==
  \A p \in Procs :
    SeqOp(p, "update") =>
      LET u == req[p].user IN
        /\ users = pre.db.users
        /\ matches = pre.db.matches
        /\ \A v \in UserIds \ {u} :
             /\ profile[v] = pre.db.profile[v]
             /\ liked[v] = pre.db.liked[v]
             /\ likedBy[v] = pre.db.likedBy[v]
        /\ (Done(p) /\ resp[p].status = 200) =>
             /\ resp[p].doc.id = u
             /\ resp[p].doc.password = ""
             /\ resp[p].doc.preference = profile[u].preference
             /\ resp[p].doc.liked = liked[u]
             /\ resp[p].doc.likedBy = likedBy[u]

\* A matched user overwrote the own likedBy array while the other user's
\* arrays and the Match record were in the store.
C17_Witness ==
  \E p \in Procs :
    /\ SeqOp(p, "update") /\ Done(p) /\ resp[p].status = 200
    /\ req[p].wrote
    /\ likedBy[req[p].user] = <<GhostId>>
    /\ pre.db.likedBy[req[p].user] # <<GhostId>>
    /\ profile[req[p].user].password # ""
    /\ matches # <<>>
    /\ \E v \in users \ {req[p].user} : liked[v] # <<>> /\ likedBy[v] # <<>>

====
